---- MODULE Spec2Model ----
(***************************************************************************)
(* Model of src/app.js: an HTTP gateway in front of an OPC UA session.     *)
(*   findVariables   recursive walk of the address space (lines 19-38)     *)
(*   getVariableType native type tag -> {name, coerce}     (lines 47-93)   *)
(*   main            startup, then the three HTTP handlers (lines 99-218)  *)
(* The OPC UA session and the HTTP framework are external: their results   *)
(* (browse lists, type tags, read values, write statuses, failures) are    *)
(* nondeterministic inputs.                                                *)
(***************************************************************************)
EXTENDS Integers, Sequences, FiniteSets, TLC

VARIABLES
    refs,           \* the address-space snapshot: node id -> list returned by browse
    mainPc,         \* position of main(): connect, createSession, findVariables,
                    \*   resolve, serving, aborted
    startupError,   \* which startup call rejected ("none" if none did)
    stack,          \* chain of nested findVariables calls, innermost last
    variables,      \* main's `variables` (VariableIndex)
    variableTypes,  \* main's `variableTypes` (TypeIndex): own keys -> descriptor
    k,              \* position of the for-of loop at line 127
    browseCount,    \* node id -> number of session.browse calls on it
    typeCalls,      \* id -> number of session.getBuiltInDataType calls on it
    dataTypes,      \* id -> the tag getBuiltInDataType returned for it ("none" before)
    reqs            \* HTTP requests received so far, with their handler state

vars == <<refs, mainPc, startupError, stack, variables, variableTypes, k,
          browseCount, typeCalls, dataTypes, reqs>>

----------------------------------------------------------------------------
(* Bounds *)

\* longest chain of nested findVariables calls explored (binds only on cycles)
MaxDepth == 4
\* number of HTTP requests received in one behaviour
MaxReqs == 2

----------------------------------------------------------------------------
(* The address space *)

Root == "RootFolder"
Containers == {Root, "c1", "c2"}
Vars == {"v1", "v2"}
Others == {"m1"}
Nodes == Containers \cup Vars \cup Others

\* EnumNodeClass of a node, as carried by every reference to it
NodeClass(n) ==
    IF n \in Containers THEN "Object"
    ELSE IF n \in Vars THEN "Variable"
    ELSE "Method"

Range(s) == {s[j] : j \in 1..Len(s)}

\* reference lists of length at most two over a set of targets
RefLists(S) == {<<>>} \cup {<<a>> : a \in S} \cup {<<a, b>> : a \in S, b \in S}
ShortLists(S) == {<<>>} \cup {<<a>> : a \in S}

\* Address spaces explored by the walk: diamonds (a Variable or a Container
\* listed by two parents), repeated references, cycles (c1 -> c1, c1 -> c2 -> c1),
\* and a non-Object, non-Variable node that has children of its own.
Spaces ==
    {[n \in Nodes |->
        CASE n = Root -> r
          [] n = "c1" -> a
          [] n = "c2" -> b
          [] n = "m1" -> m
          [] OTHER    -> <<>>] :
        r \in RefLists({"c1", "c2", "v1", "m1"}),
        a \in RefLists({"c1", "c2", "v1", "v2"}),
        b \in RefLists({"c1", "v1", "v2"}),
        m \in ShortLists({"c2", "v2"})}

\* Address spaces used for whole-gateway runs
GatewaySpaces ==
    {[n \in Nodes |->
        CASE n = Root -> r
          [] n = "c1" -> a
          [] n = "m1" -> <<"v2">>
          [] OTHER    -> <<>>] :
        r \in {<<"v1", "c1">>, <<"c1", "m1">>, <<"m1">>},
        a \in {<<"v1", "v2">>, <<"c1">>, <<>>}}

----------------------------------------------------------------------------
(* findVariables *)

\* lines 32-34: childVariables.forEach(id => if (!variables.includes(id)) push)
RECURSIVE MergeNoCheck(_, _)
MergeNoCheck(acc, child) ==
    IF child = <<>> THEN acc
    ELSE MergeNoCheck(Append(acc, Head(child)), Tail(child))

RECURSIVE Merge(_, _)
Merge(acc, child) ==
    IF child = <<>> THEN acc
    ELSE Merge(IF Head(child) \in Range(acc) THEN acc ELSE Append(acc, Head(child)),
               Tail(child))

\* a fresh activation of findVariables(session, n), before its browse
Frame(n) == [nodeId |-> n, pc |-> "browse", references |-> <<>>, i |-> 1,
             variables |-> <<>>]

Top == stack[Len(stack)]
SetTop(f) == [stack EXCEPT ![Len(stack)] = f]

Walking == mainPc = "findVariables" /\ stack # <<>>

\* line 22: let node = await session.browse(nodeId)   (the call returns)
BrowseAnyOrder ==
    /\ Walking /\ Top.pc = "browse"
    /\ browseCount' = [browseCount EXCEPT ![Top.nodeId] = @ + 1]
    /\ \E list \in {refs[Top.nodeId],
                     [j \in 1..Len(refs[Top.nodeId]) |->
                         refs[Top.nodeId][Len(refs[Top.nodeId]) + 1 - j]]} :
          stack' = SetTop([Top EXCEPT !.pc = "loop", !.references = list])
    /\ UNCHANGED <<refs, mainPc, startupError, variables, variableTypes, k,
                   typeCalls, dataTypes, reqs>>

Browse ==
    /\ Walking /\ Top.pc = "browse"
    /\ browseCount' = [browseCount EXCEPT ![Top.nodeId] = @ + 1]
    /\ stack' = SetTop([Top EXCEPT !.pc = "loop", !.references = refs[Top.nodeId]])
    /\ UNCHANGED <<refs, mainPc, startupError, variables, variableTypes, k,
                   typeCalls, dataTypes, reqs>>

\* line 22 rejects: no frame catches, so every nested call and main() reject
BrowseFailSwallowed ==
    /\ Walking /\ Top.pc = "browse"
    /\ browseCount' = [browseCount EXCEPT ![Top.nodeId] = @ + 1]
    /\ stack' = SetTop([Top EXCEPT !.pc = "loop"])
    /\ startupError' = "browse"
    /\ UNCHANGED <<refs, mainPc, variables, variableTypes, k, typeCalls, dataTypes, reqs>>

BrowseFail ==
    /\ Walking /\ Top.pc = "browse"
    /\ browseCount' = [browseCount EXCEPT ![Top.nodeId] = @ + 1]
    /\ stack' = <<>>
    /\ mainPc' = "aborted"
    /\ startupError' = "browse"
    /\ UNCHANGED <<refs, variables, variableTypes, k, typeCalls, dataTypes, reqs>>

AtChild == Walking /\ Top.pc = "loop" /\ Top.i <= Len(Top.references)
Child == Top.references[Top.i]

\* lines 27-28: an Object child: call findVariables on it and wait for it
\* (variant: a Container already browsed is not browsed again)
VisitObjectOnce ==
    /\ AtChild /\ NodeClass(Child) = "Object"
    /\ IF browseCount[Child] = 0
       THEN /\ Len(stack) < MaxDepth
            /\ stack' = Append(SetTop([Top EXCEPT !.pc = "await"]), Frame(Child))
       ELSE stack' = SetTop([Top EXCEPT !.i = @ + 1])
    /\ UNCHANGED <<refs, mainPc, startupError, variables, variableTypes, k,
                   browseCount, typeCalls, dataTypes, reqs>>

\* (variant: no recursion below the children of root)
VisitObjectDepthLimited ==
    /\ AtChild /\ NodeClass(Child) = "Object"
    /\ IF Len(stack) <= 1
       THEN stack' = Append(SetTop([Top EXCEPT !.pc = "await"]), Frame(Child))
       ELSE stack' = SetTop([Top EXCEPT !.i = @ + 1])
    /\ UNCHANGED <<refs, mainPc, startupError, variables, variableTypes, k,
                   browseCount, typeCalls, dataTypes, reqs>>

VisitObject ==
    /\ AtChild /\ NodeClass(Child) = "Object"
    /\ Len(stack) < MaxDepth
    /\ stack' = Append(SetTop([Top EXCEPT !.pc = "await"]), Frame(Child))
    /\ UNCHANGED <<refs, mainPc, startupError, variables, variableTypes, k,
                   browseCount, typeCalls, dataTypes, reqs>>

\* lines 29-34: a Variable child: childVariables = [id], merged
\* (variant: the loop does not move on to the next reference)
VisitVariableNoAdvance ==
    /\ AtChild /\ NodeClass(Child) = "Variable"
    /\ stack' = SetTop([Top EXCEPT !.variables = Merge(@, <<Child>>)])
    /\ UNCHANGED <<refs, mainPc, startupError, variables, variableTypes, k,
                   browseCount, typeCalls, dataTypes, reqs>>

VisitVariable ==
    /\ AtChild /\ NodeClass(Child) = "Variable"
    /\ stack' = SetTop([Top EXCEPT !.variables = Merge(@, <<Child>>), !.i = @ + 1])
    /\ UNCHANGED <<refs, mainPc, startupError, variables, variableTypes, k,
                   browseCount, typeCalls, dataTypes, reqs>>

\* lines 25, 32-34: any other class: childVariables stays [], nothing merged
VisitOtherAsObject ==
    /\ AtChild /\ NodeClass(Child) \notin {"Object", "Variable"}
    /\ Len(stack) < MaxDepth
    /\ stack' = Append(SetTop([Top EXCEPT !.pc = "await"]), Frame(Child))
    /\ UNCHANGED <<refs, mainPc, startupError, variables, variableTypes, k,
                   browseCount, typeCalls, dataTypes, reqs>>

VisitOther ==
    /\ AtChild /\ NodeClass(Child) \notin {"Object", "Variable"}
    /\ stack' = SetTop([Top EXCEPT !.variables = Merge(@, <<>>), !.i = @ + 1])
    /\ UNCHANGED <<refs, mainPc, startupError, variables, variableTypes, k,
                   browseCount, typeCalls, dataTypes, reqs>>

AtReturn == Walking /\ Top.pc = "loop" /\ Top.i > Len(Top.references)

\* line 37 into line 28: the nested call returns, its result is merged (32-34)
ReturnToParentNoMerge ==
    /\ AtReturn /\ Len(stack) > 1
    /\ LET parent == stack[Len(stack) - 1]
           rest == SubSeq(stack, 1, Len(stack) - 2)
       IN stack' = Append(rest, [parent EXCEPT !.pc = "loop", !.i = @ + 1])
    /\ UNCHANGED <<refs, mainPc, startupError, variables, variableTypes, k,
                   browseCount, typeCalls, dataTypes, reqs>>

ReturnToParent ==
    /\ AtReturn /\ Len(stack) > 1
    /\ LET parent == stack[Len(stack) - 1]
           rest == SubSeq(stack, 1, Len(stack) - 2)
       IN stack' = Append(rest, [parent EXCEPT !.pc = "loop",
                                               !.variables = Merge(@, Top.variables),
                                               !.i = @ + 1])
    /\ UNCHANGED <<refs, mainPc, startupError, variables, variableTypes, k,
                   browseCount, typeCalls, dataTypes, reqs>>

\* line 37 into line 121: the outermost call returns to main
ReturnToMain ==
    /\ AtReturn /\ Len(stack) = 1
    /\ variables' = Top.variables
    /\ stack' = <<>>
    /\ mainPc' = "resolve"
    /\ k' = 1
    /\ UNCHANGED <<refs, startupError, variableTypes, browseCount, typeCalls, dataTypes, reqs>>

----------------------------------------------------------------------------
(* getVariableType *)

\* members of DataType that session.getBuiltInDataType may return
TableTags == {"Boolean", "Byte", "Double", "Float", "Int16", "Int32",
              "LocalizedText", "SByte", "String", "UInt16", "UInt32"}
Tags == TableTags \cup {"DateTime", "UInt64", "Null"}

\* a switch statement takes the first arm whose label equals the scrutinee
RECURSIVE FirstArm(_, _, _)
FirstArm(arms, dt, default) ==
    IF arms = <<>> THEN default
    ELSE IF Head(arms)[1] = dt THEN Head(arms)[2]
    ELSE FirstArm(Tail(arms), dt, default)

\* lines 52-65, in source order
NameArms ==
    << <<"Boolean", "Boolean">>, <<"Byte", "Byte">>, <<"Double", "Double">>,
       <<"Float", "Float">>, <<"Int16", "Int16">>, <<"Int32", "Int32">>,
       <<"LocalizedText", "LocalizedText">>, <<"SByte", "SByte">>,
       <<"String", "String">>, <<"UInt16", "Int16">>, <<"UInt32", "UInt32">>,
       <<"UInt32", "UInt64">> >>

\* the second switch with the UInt16 label left out
CoerceArmsNoUInt16 ==
    << <<"Boolean", "Boolean">>,
       <<"Byte", "Number">>, <<"Double", "Number">>, <<"Float", "Number">>,
       <<"Int16", "Number">>, <<"Int32", "Number">>, <<"SByte", "Number">>,
       <<"UInt32", "Number">>, <<"UInt32", "Number">>,
       <<"LocalizedText", "String">>, <<"String", "String">> >>

\* lines 69-87, in source order
CoerceArms ==
    << <<"Boolean", "Boolean">>,
       <<"Byte", "Number">>, <<"Double", "Number">>, <<"Float", "Number">>,
       <<"Int16", "Number">>, <<"Int32", "Number">>, <<"SByte", "Number">>,
       <<"UInt16", "Number">>, <<"UInt32", "Number">>, <<"UInt32", "Number">>,
       <<"LocalizedText", "String">>, <<"String", "String">> >>

\* lines 50-65
TypeName(dt) == FirstArm(NameArms, dt, "String")
\* lines 67-87
TypeCoerceDefaultString(dt) == FirstArm(CoerceArms, dt, "String")
TypeCoerce(dt) == FirstArm(CoerceArms, dt, "identity")
\* lines 89-92: the descriptor built from the tag read at line 48
getVariableType(dt) == [name |-> TypeName(dt), coerce |-> TypeCoerce(dt)]

----------------------------------------------------------------------------
(* JavaScript values and the conversions the coercions apply *)

JBool(b) == [t |-> "boolean", v |-> IF b THEN "true" ELSE "false"]
JNum(lit) == [t |-> "number", v |-> lit]
JStr(s) == [t |-> "string", v |-> s]

\* strings that Number() reads as a number, with the number's printed form
NumericStrings == {"0", "1", "42"}

\* Boolean(val)
JsBoolean(val) ==
    CASE val.t = "boolean" -> val
      [] val.t = "number"  -> JBool(val.v \notin {"0", "NaN"})
      [] val.t = "string"  -> JBool(val.v # "")
\* Number(val)
JsNumber(val) ==
    CASE val.t = "boolean" -> JNum(IF val.v = "true" THEN "1" ELSE "0")
      [] val.t = "number"  -> val
      [] val.t = "string"  -> JNum(IF val.v = "" THEN "0"
                                   ELSE IF val.v \in NumericStrings THEN val.v
                                   ELSE "NaN")
\* String(val)
JsString(val) == JStr(val.v)

\* type.coerce(raw) for a descriptor built by getVariableType
Coerce(kind, raw) ==
    CASE kind = "Boolean" -> JsBoolean(raw)
      [] kind = "Number"  -> JsNumber(raw)
      [] kind = "String"  -> JsString(raw)
      [] OTHER            -> raw

----------------------------------------------------------------------------
(* main: startup *)

\* type tags the session reports in whole-gateway runs: one per coercion
GatewayTags == {"Boolean", "UInt16", "LocalizedText", "DateTime"}

\* line 116: await client.connect(endpointUrl)
Connect ==
    /\ mainPc = "connect"
    /\ mainPc' = "createSession"
    /\ UNCHANGED <<refs, startupError, stack, variables, variableTypes, k,
                   browseCount, typeCalls, dataTypes, reqs>>

ConnectFail ==
    /\ mainPc = "connect"
    /\ mainPc' = "aborted"
    /\ startupError' = "connect"
    /\ UNCHANGED <<refs, stack, variables, variableTypes, k, browseCount,
                   typeCalls, dataTypes, reqs>>

\* lines 117-121: the session is created and findVariables(session, "RootFolder")
\* is called
CreateSession ==
    /\ mainPc = "createSession"
    /\ mainPc' = "findVariables"
    /\ stack' = <<Frame(Root)>>
    /\ UNCHANGED <<refs, startupError, variables, variableTypes, k, browseCount,
                   typeCalls, dataTypes, reqs>>

CreateSessionFail ==
    /\ mainPc = "createSession"
    /\ mainPc' = "aborted"
    /\ startupError' = "createSession"
    /\ UNCHANGED <<refs, stack, variables, variableTypes, k, browseCount,
                   typeCalls, dataTypes, reqs>>

\* variableTypes[id] = value on the object literal of line 125
SetKey(obj, id, value) == [x \in DOMAIN obj \cup {id} |-> IF x = id THEN value ELSE obj[x]]

\* lines 127-129, one iteration: getBuiltInDataType returns tag dt
ResolveWith(T) ==
    /\ mainPc = "resolve" /\ k <= Len(variables)
    /\ \E dt \in T :
          /\ variableTypes' = SetKey(variableTypes, variables[k], getVariableType(dt))
          /\ dataTypes' = [dataTypes EXCEPT ![variables[k]] = dt]
    /\ typeCalls' = [typeCalls EXCEPT ![variables[k]] = @ + 1]
    /\ k' = k + 1
    /\ UNCHANGED <<refs, mainPc, startupError, stack, variables, browseCount, reqs>>

Resolve == ResolveWith(GatewayTags)

\* the same iteration when the session may report any member of DataType
ResolveAny == ResolveWith(Tags)

\* line 48 rejects inside the loop of line 127: main() rejects
ResolveFail ==
    /\ mainPc = "resolve" /\ k <= Len(variables)
    /\ typeCalls' = [typeCalls EXCEPT ![variables[k]] = @ + 1]
    /\ mainPc' = "aborted"
    /\ startupError' = "getBuiltInDataType"
    /\ UNCHANGED <<refs, stack, variables, variableTypes, k, browseCount, dataTypes, reqs>>

\* lines 131-211: the loop is over, the routes are registered, app.listen
ListenEarly ==
    /\ mainPc = "resolve"
    /\ mainPc' = "serving"
    /\ UNCHANGED <<refs, startupError, stack, variables, variableTypes, k,
                   browseCount, typeCalls, dataTypes, reqs>>

Listen ==
    /\ mainPc = "resolve" /\ k > Len(variables)
    /\ mainPc' = "serving"
    /\ UNCHANGED <<refs, startupError, stack, variables, variableTypes, k,
                   browseCount, typeCalls, dataTypes, reqs>>

\* requests reach the handlers only once app.listen has been called
ListeningAlways == TRUE
Listening == mainPc = "serving"

----------------------------------------------------------------------------
(* main: the HTTP handlers *)

\* request paths tried: discovered or undiscovered Variables, a Container, and
\* a name every object literal inherits from Object.prototype
PathIds == {"v1", "v2", "c1", "constructor"}
\* request bodies, as parsed by express.json({strict: false})
Bodies == {JBool(TRUE), JNum("0"), JStr("42")}
\* values the session returns from readVariableValue
ReadValues == {JNum("42"), JStr("on")}
ReadError == [t |-> "error", v |-> "BadTimeout"]
\* status results the session returns from write; value is the status code
\* divided by 2^16 (BadTypeMismatch is 0x80740000, its low 16 bits are zero)
Good == [value |-> 0, description |-> "Good"]
WriteStatuses == {Good, [value |-> 32884, description |-> "BadTypeMismatch"]}
NoStatus == [value |-> -1, description |-> ""]
Undefined == [t |-> "undefined", v |-> ""]

\* properties every object created by {} inherits (line 125)
ObjectPrototypeKeys == {"constructor", "toString", "valueOf", "hasOwnProperty",
                        "__proto__"}

\* own keys of variableTypes
Keys == DOMAIN variableTypes

\* lines 152, 178: variableTypes[id] is truthy. A descriptor is an object, an
\* inherited property is a function or an object, anything else is undefined.
Found(id) == id \in Keys \/ id \in ObjectPrototypeKeys

NewRequest(method, id, body) ==
    [method |-> method, id |-> id, body |-> body, pc |-> "start", status |-> 0,
     out |-> Undefined, list |-> <<>>, reads |-> <<>>, writes |-> <<>>,
     got |-> Undefined, wstatus |-> NoStatus, unhandled |-> FALSE]

CanAccept == Listening /\ Len(reqs) < MaxReqs

\* status and body sent by res.json / res.sendStatus / res.status().send
Respond(r, status, out) == [r EXCEPT !.pc = "done", !.status = status, !.out = out]

\* lines 139-145: GET /
\* (variant: the handler consumes the index it sends, as variables.shift() would)
GetAllShift ==
    /\ CanAccept
    /\ reqs' = Append(reqs, [Respond(NewRequest("GET /", "", Undefined), 200, Undefined)
                               EXCEPT !.list = variables])
    /\ variables' = IF variables = <<>> THEN variables ELSE Tail(variables)
    /\ UNCHANGED <<refs, mainPc, startupError, stack, variableTypes, k,
                   browseCount, typeCalls, dataTypes>>

GetAll ==
    /\ CanAccept
    /\ reqs' = Append(reqs, [Respond(NewRequest("GET /", "", Undefined), 200, Undefined)
                               EXCEPT !.list = variables])
    /\ UNCHANGED <<refs, mainPc, startupError, stack, variables, variableTypes, k,
                   browseCount, typeCalls, dataTypes>>

\* lines 147-158: GET /:nodeId up to its await
GetNodeStart(r) ==
    IF ~Found(r.id) THEN Respond(r, 404, Undefined)
    ELSE [r EXCEPT !.pc = "read", !.reads = Append(@, r.id)]

GetNode ==
    /\ CanAccept
    /\ \E id \in PathIds :
          reqs' = Append(reqs, GetNodeStart(NewRequest("GET", id, Undefined)))
    /\ UNCHANGED <<refs, mainPc, startupError, stack, variables, variableTypes, k,
                   browseCount, typeCalls, dataTypes>>

\* lines 158-163: readVariableValue resolves with val; res.json(val.value.value)
ReadDoneFixed(r, val) == [Respond(r, 200, JNum("42")) EXCEPT !.got = val]
ReadDone(r, val) == [Respond(r, 200, val) EXCEPT !.got = val]

ReadReturns ==
    /\ \E j \in 1..Len(reqs), val \in ReadValues :
          /\ reqs[j].pc = "read"
          /\ reqs' = [reqs EXCEPT ![j] = ReadDone(@, val)]
    /\ UNCHANGED <<refs, mainPc, startupError, stack, variables, variableTypes, k,
                   browseCount, typeCalls, dataTypes>>

\* lines 164-168: readVariableValue rejects; res.status(500).send(e)
\* (variant: the handler reads again after a failure)
ReadThrowsRetry ==
    /\ \E j \in 1..Len(reqs) :
          /\ reqs[j].pc = "read"
          /\ reqs' = [reqs EXCEPT ![j].reads = Append(@, reqs[j].id)]
    /\ UNCHANGED <<refs, mainPc, startupError, stack, variables, variableTypes, k,
                   browseCount, typeCalls, dataTypes>>

ReadThrows ==
    /\ \E j \in 1..Len(reqs) :
          /\ reqs[j].pc = "read"
          /\ reqs' = [reqs EXCEPT ![j] = [Respond(@, 500, ReadError)
                                            EXCEPT !.got = ReadError]]
    /\ UNCHANGED <<refs, mainPc, startupError, stack, variables, variableTypes, k,
                   browseCount, typeCalls, dataTypes>>

\* What the framework makes of a handler promise that rejects: Express 4
\* ignores it (the request stays unanswered), Express 5 answers 500.
FrameworkOutcomes == {0, 500}

Rejected(r, status) ==
    [r EXCEPT !.pc = "rejected", !.unhandled = TRUE, !.status = status]

\* the argument of session.write built at lines 185-194
WriteArgRaw(id, type, raw) ==
    [nodeId |-> id, dataType |-> type.name, value |-> raw]
WriteArg(id, type, raw) ==
    [nodeId |-> id, dataType |-> type.name, value |-> Coerce(type.coerce, raw)]

\* lines 172-185: PUT /:nodeId up to its await. An inherited property is no
\* descriptor: its coerce is undefined and calling it throws a TypeError
\* before session.write is called.
PutNodeStart(r, fw) ==
    IF ~Found(r.id) THEN Respond(r, 404, Undefined)
    ELSE IF r.id \in Keys
         THEN [r EXCEPT !.pc = "write",
                        !.writes = Append(@, WriteArg(r.id, variableTypes[r.id], r.body))]
         ELSE Rejected(r, fw)

PutNode ==
    /\ CanAccept
    /\ \E id \in PathIds, raw \in Bodies, fw \in FrameworkOutcomes :
          reqs' = Append(reqs, PutNodeStart(NewRequest("PUT", id, raw), fw))
    /\ UNCHANGED <<refs, mainPc, startupError, stack, variables, variableTypes, k,
                   browseCount, typeCalls, dataTypes>>

\* lines 196-204: session.write resolves with status
WriteDone(r, st) ==
    [(IF st.value = 0 THEN Respond(r, 204, Undefined)
                      ELSE Respond(r, 400, JStr(st.description)))
       EXCEPT !.wstatus = st]

WriteReturns ==
    /\ \E j \in 1..Len(reqs), st \in WriteStatuses :
          /\ reqs[j].pc = "write"
          /\ reqs' = [reqs EXCEPT ![j] = WriteDone(@, st)]
    /\ UNCHANGED <<refs, mainPc, startupError, stack, variables, variableTypes, k,
                   browseCount, typeCalls, dataTypes>>

\* line 185: session.write rejects; nothing in the handler catches it
WriteThrows ==
    /\ \E j \in 1..Len(reqs), fw \in FrameworkOutcomes :
          /\ reqs[j].pc = "write"
          /\ reqs' = [reqs EXCEPT ![j] = Rejected(@, fw)]
    /\ UNCHANGED <<refs, mainPc, startupError, stack, variables, variableTypes, k,
                   browseCount, typeCalls, dataTypes>>

----------------------------------------------------------------------------
(* Specifications *)

Zero(S) == [n \in S |-> 0]

\* the process as main() starts
Init ==
    /\ refs \in GatewaySpaces
    /\ mainPc = "connect"
    /\ startupError = "none"
    /\ stack = <<>>
    /\ variables = <<>>
    /\ variableTypes = <<>>
    /\ k = 1
    /\ browseCount = Zero(Nodes)
    /\ typeCalls = Zero(Nodes)
    /\ dataTypes = [n \in Nodes |-> "none"]
    /\ reqs = <<>>

Walk ==
    \/ Browse
    \/ BrowseFail
    \/ VisitObject
    \/ VisitVariable
    \/ VisitOther
    \/ ReturnToParent
    \/ ReturnToMain

Next ==
    \/ Connect
    \/ ConnectFail
    \/ CreateSession
    \/ CreateSessionFail
    \/ Walk
    \/ Resolve
    \/ ResolveFail
    \/ Listen
    \/ GetAll
    \/ GetNode
    \/ ReadReturns
    \/ ReadThrows
    \/ PutNode
    \/ WriteReturns
    \/ WriteThrows

Spec == Init /\ [][Next]_vars

\* findVariables(session, "RootFolder") alone, over every address space
InitWalk ==
    /\ refs \in Spaces
    /\ mainPc = "findVariables"
    /\ startupError = "none"
    /\ stack = <<Frame(Root)>>
    /\ variables = <<>>
    /\ variableTypes = <<>>
    /\ k = 1
    /\ browseCount = Zero(Nodes)
    /\ typeCalls = Zero(Nodes)
    /\ dataTypes = [n \in Nodes |-> "none"]
    /\ reqs = <<>>

SpecWalk == InitWalk /\ [][Walk]_vars

\* findVariables when every browse call returns; the event loop runs every
\* continuation that is ready, hence weak fairness
WalkReturning ==
    \/ Browse
    \/ VisitObject
    \/ VisitVariable
    \/ VisitOther
    \/ ReturnToParent
    \/ ReturnToMain

SpecWalkLive == InitWalk /\ [][WalkReturning]_vars /\ WF_vars(WalkReturning)

\* the walk and the resolution loop, the session reporting any type tag
InitTypes ==
    /\ refs \in GatewaySpaces
    /\ mainPc = "findVariables"
    /\ startupError = "none"
    /\ stack = <<Frame(Root)>>
    /\ variables = <<>>
    /\ variableTypes = <<>>
    /\ k = 1
    /\ browseCount = Zero(Nodes)
    /\ typeCalls = Zero(Nodes)
    /\ dataTypes = [n \in Nodes |-> "none"]
    /\ reqs = <<>>

NextTypes ==
    \/ Walk
    \/ ResolveAny
    \/ ResolveFail
    \/ Listen

SpecTypes == InitTypes /\ [][NextTypes]_vars

----------------------------------------------------------------------------
(* Properties of findVariables, checked under SpecWalk *)

NoDuplicates(s) == \A i, j \in 1..Len(s) : i # j => s[i] # s[j]

\* Containers reachable from root through a chain of Object-class references
RECURSIVE ReachFrom(_)
ReachFrom(S) ==
    LET more == S \cup {c \in Nodes : NodeClass(c) = "Object"
                                       /\ \E p \in S : c \in Range(refs[p])}
    IN IF more = S THEN S ELSE ReachFrom(more)
ReachableContainers == ReachFrom({Root})

\* Containers that list node n
Parents(n) == {c \in ReachableContainers : n \in Range(refs[c])}

\* Variable-class nodes listed by a reachable Container
ListedVariables == {v \in Nodes : NodeClass(v) = "Variable" /\ Parents(v) # {}}

\* the outermost findVariables call has returned to main
Returned == mainPc = "resolve" /\ stack = <<>>

\* every id held by main or by an activation of findVariables
Collected ==
    Range(variables) \cup UNION {Range(stack[d].variables) : d \in 1..Len(stack)}

\* C1: the sequence returned by findVariables, and the running result of every
\* nested call, contains no id twice.
C1_NoDuplicateIds ==
    /\ Returned => NoDuplicates(variables)
    /\ \A d \in 1..Len(stack) : NoDuplicates(stack[d].variables)

\* a walk returned on a space where one Variable is listed by two Containers
\* and one sub-Container is listed by two Containers
C1_Witness ==
    /\ Returned
    /\ \E v \in Range(variables) : Cardinality(Parents(v)) >= 2
    /\ \E c \in ReachableContainers \ {Root} : Cardinality(Parents(c)) >= 2

\* C2: when findVariables returns, the ids returned are exactly the Variable
\* nodes listed by root or by a Container reachable from root. (A walk returns
\* only when the reachable Container graph is acyclic.)
C2_ExactlyListedVariables ==
    Returned => Range(variables) = ListedVariables

\* a walk returned both Variables, one of them from two levels down
C2_Witness ==
    /\ Returned
    /\ Range(variables) = Vars
    /\ "c2" \in Range(refs["c1"]) /\ "c2" \notin Range(refs[Root])
    /\ "v2" \in Range(refs["c2"]) /\ "v2" \notin Range(refs["c1"])

\* C3: a node whose class is neither Object nor Variable is never browsed and
\* never collected, and nothing is browsed or collected through it: only
\* reachable Containers are browsed, only Variables they list are collected.
C3_OtherClassesSkipped ==
    /\ \A n \in Nodes : NodeClass(n) \notin {"Object", "Variable"}
                          => browseCount[n] = 0 /\ n \notin Collected
    /\ \A n \in Nodes : browseCount[n] > 0 => n \in ReachableContainers
    /\ Collected \subseteq ListedVariables

\* a walk returned after passing a Method reference whose node lists a
\* Variable and a Container that nothing else lists
C3_Witness ==
    /\ Returned
    /\ "m1" \in Range(refs[Root])
    /\ refs["m1"] # <<>>
    /\ \A n \in Range(refs["m1"]) : n \notin ReachableContainers \cup ListedVariables

----------------------------------------------------------------------------
(* Properties of startup, checked under Spec *)

\* C4: when type resolution completes, the keys of variableTypes are exactly
\* the ids of variables, and getBuiltInDataType was called once per id.
C4_TypeIndexCoversVariables ==
    (mainPc = "serving") =>
        /\ Keys = Range(variables)
        /\ \A n \in Nodes : typeCalls[n] = IF n \in Range(variables) THEN 1 ELSE 0

\* resolution completed over two discovered Variables
C4_Witness == mainPc = "serving" /\ Cardinality(Keys) = 2

\* C5: a request is received, and the gateway is serving, only after the walk
\* has returned and the type of every discovered id has been resolved.
C5_IndexBuiltBeforeServing ==
    (reqs # <<>> \/ mainPc = "serving") =>
        /\ mainPc = "serving"
        /\ stack = <<>>
        /\ k = Len(variables) + 1
        /\ \A j \in 1..Len(variables) : variables[j] \in Keys

\* a request was answered from an index of two Variables
C5_Witness ==
    /\ Len(variables) = 2
    /\ \E j \in 1..Len(reqs) : reqs[j].status = 200

\* C6: once connect, createSession, a browse or a getBuiltInDataType has
\* failed, main is aborted, it is not serving and no request is received.
C6_StartupFailureAborts ==
    startupError # "none" => mainPc = "aborted" /\ ~Listening /\ reqs = <<>>

\* a type query failed after part of the TypeIndex was built
C6_Witness ==
    /\ startupError = "getBuiltInDataType"
    /\ Keys # {}
    /\ Keys # Range(variables)

----------------------------------------------------------------------------
(* Properties of the handlers, checked under Spec *)

Req(j) == reqs[j]
ReqIds == 1..Len(reqs)

\* C7: GET /{id} and PUT /{id} answer 404 exactly when id is no key of
\* variableTypes, and then issue no session read or write.
C7_NotFoundIffNotAKey ==
    \A j \in ReqIds : Req(j).method \in {"GET", "PUT"} =>
        /\ Req(j).status = 404 <=> Req(j).id \notin Keys
        /\ Req(j).id \notin Keys => Req(j).reads = <<>> /\ Req(j).writes = <<>>

\* C8: GET /{id} for a key of variableTypes issues one readVariableValue(id);
\* it answers 200 with the value read, or 500 with the error, and nothing else.
C8_ReadAnswers ==
    \A j \in ReqIds : (Req(j).method = "GET" /\ Req(j).id \in Keys) =>
        /\ Req(j).reads = <<Req(j).id>>
        /\ Req(j).writes = <<>>
        /\ Req(j).status \in {0, 200, 500}
        /\ Req(j).status = 0 <=> Req(j).pc = "read"
        /\ Req(j).status = 200 => Req(j).got \in ReadValues /\ Req(j).out = Req(j).got
        /\ Req(j).status = 500 => Req(j).got = ReadError /\ Req(j).out = ReadError

\* a read of a discovered Variable answered 200 with a string value
C8_Witness ==
    \E j \in ReqIds :
        /\ Req(j).method = "GET" /\ Req(j).id \in Keys
        /\ Req(j).status = 200 /\ Req(j).out = JStr("on")

\* the value Boolean(raw), Number(raw), String(raw) or raw, by coercion kind
Coerced(kind, raw) ==
    IF kind = "Boolean" THEN JsBoolean(raw)
    ELSE IF kind = "Number" THEN JsNumber(raw)
    ELSE IF kind = "String" THEN JsString(raw)
    ELSE raw

\* C9: PUT /{id} for a key of variableTypes issues one write to id whose
\* dataType is the name stored for id and whose value is the body coerced by
\* the coercion stored for id; a returned status of 0 is answered 204, any
\* other returned status 400 with its description.
C9_WriteUsesDescriptor ==
    \A j \in ReqIds : (Req(j).method = "PUT" /\ Req(j).id \in Keys) =>
        /\ Req(j).reads = <<>>
        /\ Req(j).writes = <<[nodeId |-> Req(j).id,
                              dataType |-> variableTypes[Req(j).id].name,
                              value |-> Coerced(variableTypes[Req(j).id].coerce,
                                                Req(j).body)]>>
        /\ Req(j).wstatus # NoStatus =>
              IF Req(j).wstatus.value = 0
              THEN Req(j).status = 204
              ELSE Req(j).status = 400 /\ Req(j).out = JStr(Req(j).wstatus.description)

\* a write of the string "42" to a numeric Variable went out as the number 42
\* and was rejected by the session
C9_Witness ==
    \E j \in ReqIds :
        /\ Req(j).method = "PUT" /\ Req(j).id \in Keys
        /\ Req(j).body = JStr("42")
        /\ Req(j).writes = <<[nodeId |-> Req(j).id, dataType |-> "Int16",
                              value |-> JNum("42")]>>
        /\ Req(j).status = 400

\* a session call made by request j rejected
SessionCallFailed(j) ==
    \/ Req(j).got = ReadError
    \/ Req(j).pc = "rejected" /\ Req(j).writes # <<>>

\* C10: a session read or write that fails at request time is caught in the
\* handler and answered 500; it never escapes the handler.
C10_FailuresCaught ==
    \A j \in ReqIds : SessionCallFailed(j) =>
        Req(j).status = 500 /\ ~Req(j).unhandled

----------------------------------------------------------------------------
(* Properties of getVariableType, checked under SpecTypes *)

CanonicalNames == {"Boolean", "Byte", "Double", "Float", "Int16", "Int32",
                   "LocalizedText", "SByte", "String", "UInt16", "UInt32", "UInt64"}
CoercionKinds == {"Boolean", "Number", "String", "identity"}

\* C11: every tag the session reports, in the table or not, resolves to a
\* descriptor; a tag outside the table resolves to the name String with the
\* identity coercion.
C11_ResolverTotal ==
    \A id \in Nodes : dataTypes[id] # "none" =>
        /\ id \in Keys
        /\ variableTypes[id].name \in CanonicalNames
        /\ variableTypes[id].coerce \in CoercionKinds
        /\ dataTypes[id] \notin TableTags =>
              variableTypes[id] = [name |-> "String", coerce |-> "identity"]

\* two Variables resolved, one from a tag of the table, one from a tag outside
C11_Witness ==
    /\ mainPc = "serving"
    /\ dataTypes["v1"] = "Double"
    /\ dataTypes["v2"] = "DateTime"
    /\ variableTypes["v2"].name = "String"

\* C12 as claimed: descriptors with the same name have the same coercion, and
\* every descriptor named String or LocalizedText has the string coercion.
C12_CoercionByName ==
    /\ \A a, b \in Keys : variableTypes[a].name = variableTypes[b].name
                            => variableTypes[a].coerce = variableTypes[b].coerce
    /\ \A a \in Keys : variableTypes[a].name \in {"String", "LocalizedText"}
                            => variableTypes[a].coerce = "String"

\* C12 amended: the coercion is decided by the tag; among tags of the table,
\* the same name means the same coercion, and the names String and
\* LocalizedText carry the string coercion; a tag outside the table carries
\* the identity coercion under the name String.
C12_CoercionByNameInTable ==
    /\ \A a, b \in Keys :
          (dataTypes[a] \in TableTags /\ dataTypes[b] \in TableTags
             /\ variableTypes[a].name = variableTypes[b].name)
          => variableTypes[a].coerce = variableTypes[b].coerce
    /\ \A a \in Keys :
          (dataTypes[a] \in TableTags
             /\ variableTypes[a].name \in {"String", "LocalizedText"})
          => variableTypes[a].coerce = "String"
    /\ \A a \in Keys : dataTypes[a] \notin TableTags
          => variableTypes[a].name = "String" /\ variableTypes[a].coerce = "identity"

\* two different tags of the table resolved to the same name
C12_Witness ==
    /\ Cardinality(Keys) = 2
    /\ dataTypes["v1"] = "UInt16" /\ dataTypes["v2"] = "Int16"
    /\ variableTypes["v1"].name = variableTypes["v2"].name

\* C20: a tag of the table resolves to the name of that same tag, so distinct
\* tags of the table resolve to distinct names and UInt32 resolves to UInt32.
C20_NameIsTagName ==
    /\ \A a \in Keys : dataTypes[a] \in TableTags => variableTypes[a].name = dataTypes[a]
    /\ \A a, b \in Keys :
          (dataTypes[a] \in TableTags /\ dataTypes[b] \in TableTags
             /\ dataTypes[a] # dataTypes[b])
          => variableTypes[a].name # variableTypes[b].name

----------------------------------------------------------------------------
(* Further properties of findVariables *)

\* number of references to node n in a browse list
Occurrences(list, n) == Cardinality({j \in 1..Len(list) : list[j] = n})

\* the Variable ids met by a depth-first, left-to-right traversal of a browse
\* list, every occurrence kept; fuel bounds the depth
RECURSIVE Preorder(_, _)
Preorder(list, fuel) ==
    IF list = <<>> THEN <<>>
    ELSE LET c == Head(list)
             here == IF NodeClass(c) = "Variable" THEN <<c>>
                     ELSE IF NodeClass(c) = "Object" /\ fuel > 0
                          THEN Preorder(refs[c], fuel - 1)
                          ELSE <<>>
         IN here \o Preorder(Tail(list), fuel)

\* first occurrences of a sequence, in order
RECURSIVE FirstOccurrences(_, _)
FirstOccurrences(seen, s) ==
    IF s = <<>> THEN <<>>
    ELSE IF Head(s) \in seen THEN FirstOccurrences(seen, Tail(s))
    ELSE <<Head(s)>> \o FirstOccurrences(seen \cup {Head(s)}, Tail(s))

\* the index as a function of the snapshot alone
DiscoveryOrder == FirstOccurrences({}, Preorder(refs[Root], Cardinality(Nodes)))

\* C13: the sequence findVariables returns is a function of the address-space
\* snapshot: every run that returns on the same snapshot returns the ids in
\* depth-first order of first occurrence.
C13_ResultDeterminedBySnapshot ==
    Returned => variables = DiscoveryOrder

\* a walk returned v2 before v1 although v1 is met again later
C13_Witness ==
    /\ Returned
    /\ variables = <<"v2", "v1">>
    /\ Occurrences(Preorder(refs[Root], Cardinality(Nodes)), "v1") >= 2

\* Containers listed by a Container
ContainerChildren(c) == {d \in Nodes : NodeClass(d) = "Object" /\ d \in Range(refs[c])}

\* a Container reachable from root lies on a cycle of Container references
Cyclic == \E c \in ReachableContainers : c \in ReachFrom(ContainerChildren(c))

\* C14: on a snapshot whose reachable Container graph is acyclic, when every
\* browse returns, findVariables eventually returns.
C14_AcyclicWalkReturns ==
    ~Cyclic => <>Returned

\* a walk returned after browsing a shared sub-Container twice
C14_Witness ==
    /\ Returned
    /\ \E c \in ReachableContainers \ {Root} :
          Cardinality(Parents(c)) >= 2 /\ browseCount[c] >= 2

\* C15: on a snapshot with a reachable Container cycle findVariables never
\* returns and main never leaves the walk; when every browse returns, the
\* chain of nested calls reaches the depth explored and stays there, some
\* Container having been browsed more than once.
C15_CyclicWalkNeverReturns ==
    Cyclic => /\ [](mainPc = "findVariables" /\ ~Returned)
              /\ <>[](Len(stack) = MaxDepth /\ \E c \in Containers : browseCount[c] >= 2)

\* the chain of nested calls is as deep as explored on a cycle through c1 and c2
C15_Witness ==
    /\ Cyclic
    /\ "c2" \in Range(refs["c1"]) /\ "c1" \in Range(refs["c2"])
    /\ Len(stack) = MaxDepth
    /\ browseCount["c1"] >= 2

\* number of reference paths from root to Container c
RECURSIVE PathCount(_, _)
RECURSIVE SumPaths(_, _, _)
SumPaths(S, c, fuel) ==
    IF S = {} THEN 0
    ELSE LET p == CHOOSE x \in S : TRUE
         IN Occurrences(refs[p], c) * PathCount(p, fuel - 1) + SumPaths(S \ {p}, c, fuel)
PathCount(c, fuel) ==
    IF c = Root THEN 1
    ELSE IF fuel = 0 THEN 0
    ELSE SumPaths({p \in Nodes : NodeClass(p) = "Object" /\ c \in Range(refs[p])},
                  c, fuel)

\* C16 as claimed: when findVariables returns, every Container reachable from
\* root has been browsed exactly once and nothing was written.
C16_EachContainerBrowsedOnce ==
    Returned => /\ \A c \in ReachableContainers : browseCount[c] = 1
                /\ reqs = <<>>

\* C16 amended: when findVariables returns, every node has been browsed once
\* per reference path leading to it from root through Containers (so every
\* reachable Container at least once, and a Container listed by two parents
\* once for each), and nothing was written.
C16_OneBrowsePerVisit ==
    Returned => /\ \A c \in Nodes :
                      browseCount[c] = IF NodeClass(c) = "Object"
                                       THEN PathCount(c, Cardinality(Nodes))
                                       ELSE 0
                /\ \A c \in ReachableContainers : browseCount[c] >= 1
                /\ reqs = <<>>

\* a walk returned on a diamond: c2 is listed by root and by c1
C16_Witness ==
    /\ Returned
    /\ "c2" \in Range(refs[Root]) /\ "c2" \in Range(refs["c1"])
    /\ "c1" \in Range(refs[Root])
    /\ browseCount["c2"] > browseCount["c1"]

----------------------------------------------------------------------------
(* Further properties of the handlers, checked under Spec *)

\* C17: once serving, no step changes variables or variableTypes or leaves
\* serving, and every GET / is answered 200 with variables as discovered.
C17_IndexesFrozen ==
    /\ [](\A j \in ReqIds : Req(j).method = "GET /" =>
             Req(j).status = 200 /\ Req(j).list = variables /\ Req(j).pc = "done")
    /\ [][mainPc = "serving" =>
             /\ mainPc' = "serving"
             /\ variables' = variables
             /\ variableTypes' = variableTypes]_vars

\* a write to a discovered Variable was answered, then GET / listed both ids
C17_Witness ==
    /\ Len(reqs) = 2
    /\ Req(1).method = "PUT" /\ Req(1).status = 204
    /\ Req(2).method = "GET /" /\ Len(Req(2).list) = 2

\* request j waits for a session call that has not completed
Awaiting(j) == Req(j).pc \in {"read", "write"}

\* C18: while the session call of one request has not completed, every other
\* request that is not waiting for a session call of its own (its call
\* completed, or it is a GET / or a request for an unknown id) has its response.
C18_OthersAnswered ==
    \A i, j \in ReqIds : (i # j /\ Awaiting(j) /\ ~Awaiting(i)) => Req(i).status # 0

\* C19: a request for a key of variableTypes issues one session call, a read
\* for GET and a write for PUT, whatever the outcome of that call.
C19_NoRetry ==
    \A j \in ReqIds : Req(j).id \in Keys =>
        /\ Req(j).method = "GET" => Len(Req(j).reads) = 1 /\ Len(Req(j).writes) = 0
        /\ Req(j).method = "PUT" => Len(Req(j).writes) = 1 /\ Len(Req(j).reads) = 0

\* a read failed and a write failed, each issued once
C19_Witness ==
    \E i, j \in ReqIds :
        /\ Req(i).method = "GET" /\ Req(i).id \in Keys /\ Req(i).got = ReadError
        /\ Req(j).method = "PUT" /\ Req(j).id \in Keys /\ Req(j).pc = "rejected"

====
